---- MODULE Spec2Model ----
(***************************************************************************)
(* PolyPasswordHasher for Django (django_pph/hashers.py).                  *)
(*                                                                         *)
(* Python 2 str values are modelled as sequences of byte values (ASCII     *)
(* codes), so that text and binary data share one representation, as they  *)
(* do in the program.  None is NONE where a string is expected and NoneObj *)
(* where an object is.                                                     *)
(***************************************************************************)
EXTENDS Integers, Sequences, FiniteSets, TLC

\* None in a slot that otherwise holds a string: no byte string contains -1
NONE == <<-1>>

\* None in a slot that otherwise holds an object
NoneObj == [none |-> TRUE]

\* ------------------------------------------------------------------------
\* Bytes and byte strings
\* ------------------------------------------------------------------------

Byte == 0..255

\* a function over 1..n as the tuple of its values
Tuple(f) == SubSeq(f, 1, Len(f))

RECURSIVE NibXor(_, _, _)
\* bitwise exclusive or of two n-bit numbers
NibXor(a, b, n) ==
    IF n = 0 THEN 0
    ELSE (((a % 2) + (b % 2)) % 2) + 2 * NibXor(a \div 2, b \div 2, n - 1)

\* table of the exclusive or of two 4-bit values a and b, at [a + 1][b + 1]
XorTab == Tuple([a \in 1..16 |-> Tuple([b \in 1..16 |-> NibXor(a - 1, b - 1, 4)])])

\* a ^ b on bytes
BXor(a, b) ==
    16 * XorTab[(a \div 16) + 1][(b \div 16) + 1] + XorTab[(a % 16) + 1][(b % 16) + 1]

\* utils.do_bytearray_xor: position-wise exclusive or of two byte strings
do_bytearray_xor(a, b) == Tuple([i \in 1..Len(a) |-> BXor(a[i], b[i])])

\* Python slices s[i:] and s[:i] for 0 <= i (0-based i, clipped to the length)
SliceFrom(s, i) == IF i >= Len(s) THEN <<>> ELSE SubSeq(s, i + 1, Len(s))
SliceTo(s, i) == IF i >= Len(s) THEN s ELSE SubSeq(s, 1, i)

\* Python s[len(s) - n:] : the last n items; the whole string when n = 0 is
\* NOT what Python gives: s[len(s):] is empty
Tail_n(s, n) == IF n > Len(s) THEN SliceFrom(s, 0) ELSE SliceFrom(s, Len(s) - n)

\* Python s[:len(s) - n]
Head_n(s, n) == IF n > Len(s) THEN <<>> ELSE SliceTo(s, Len(s) - n)

\* x in s
Contains(s, x) == \E i \in 1..Len(s) : s[i] = x

\* ASCII codes of the characters the program tests for
DOLLAR == 36
MINUS == 45
PAD == 61

RECURSIVE StripLeft(_, _)
StripLeft(s, c) == IF s # <<>> /\ Head(s) = c THEN StripLeft(Tail(s), c) ELSE s

RECURSIVE StripRight(_, _)
StripRight(s, c) ==
    IF s # <<>> /\ s[Len(s)] = c THEN StripRight(SubSeq(s, 1, Len(s) - 1), c) ELSE s

\* str.strip(c): every leading and every trailing c removed
Strip(s, c) == StripRight(StripLeft(s, c), c)

RECURSIVE Digits(_)
Digits(n) == IF n < 10 THEN <<48 + n>> ELSE Digits(n \div 10) \o <<48 + (n % 10)>>

\* "%d" % n
FormatInt(n) == IF n < 0 THEN <<MINUS>> \o Digits(0 - n) ELSE Digits(n)

IsDigits(s) == s # <<>> /\ \A i \in 1..Len(s) : s[i] \in 48..57

RECURSIVE DigitsValue(_)
DigitsValue(s) ==
    IF s = <<>> THEN 0 ELSE 10 * DigitsValue(SubSeq(s, 1, Len(s) - 1)) + (s[Len(s)] - 48)

\* int(s) succeeds on an optionally signed run of digits
IsInt(s) == IF s # <<>> /\ s[1] = MINUS THEN IsDigits(Tail(s)) ELSE IsDigits(s)

\* int(s)
ParseInt(s) == IF s[1] = MINUS THEN 0 - DigitsValue(Tail(s)) ELSE DigitsValue(s)

RECURSIVE Split(_, _, _)
\* s.split(c, maxsplit)
Split(s, c, maxsplit) ==
    IF maxsplit = 0 \/ ~Contains(s, c) THEN <<s>>
    ELSE LET i == CHOOSE k \in 1..Len(s) : s[k] = c /\ \A j \in 1..(k - 1) : s[j] # c
         IN  <<SubSeq(s, 1, i - 1)>> \o Split(SubSeq(s, i + 1, Len(s)), c, maxsplit - 1)

\* s.startswith(c) for a one-character c
StartsWith(s, c) == s # <<>> /\ s[1] = c

\* ------------------------------------------------------------------------
\* Base64 (standard alphabet, padded)
\* ------------------------------------------------------------------------

\* the character of the 6-bit value v, at [v + 1]: A-Z, a-z, 0-9, + and /
B64Chars ==
    Tuple([k \in 1..64 |->
        LET i == k - 1
        IN  IF i < 26 THEN 65 + i
            ELSE IF i < 52 THEN 97 + (i - 26)
            ELSE IF i < 62 THEN 48 + (i - 52)
            ELSE IF i = 62 THEN 43 ELSE 47])

B64Alphabet(v) == B64Chars[v + 1]

\* the 6-bit value of the character c, at [c]; -1 for a character outside the
\* alphabet
B64Values ==
    Tuple([c \in 1..127 |->
        IF \E k \in 1..64 : B64Chars[k] = c
        THEN (CHOOSE k \in 1..64 : B64Chars[k] = c) - 1
        ELSE -1])

IsB64Char(c) == c \in 1..127 /\ B64Values[c] >= 0

B64Value(c) == B64Values[c]

RECURSIVE B64Groups(_)
B64Groups(s) ==
    IF s = <<>> THEN <<>>
    ELSE IF Len(s) = 1 THEN
        <<B64Alphabet(s[1] \div 4), B64Alphabet((s[1] % 4) * 16), PAD, PAD>>
    ELSE IF Len(s) = 2 THEN
        <<B64Alphabet(s[1] \div 4),
          B64Alphabet((s[1] % 4) * 16 + (s[2] \div 16)),
          B64Alphabet((s[2] % 16) * 4), PAD>>
    ELSE
        <<B64Alphabet(s[1] \div 4),
          B64Alphabet((s[1] % 4) * 16 + (s[2] \div 16)),
          B64Alphabet((s[2] % 16) * 4 + (s[3] \div 64)),
          B64Alphabet(s[3] % 64)>> \o B64Groups(SubSeq(s, 4, Len(s)))

\* utils.b64enc: base64 text of a byte string
b64enc(s) == B64Groups(s)

\* utils.bin64enc: base64 of a binary payload
bin64enc(s) == B64Groups(s)

RECURSIVE B64DecodeQuads(_)
\* the bytes of a run of alphabet characters, four at a time; a final run of two
\* or three characters gives one or two bytes
B64DecodeQuads(v) ==
    IF Len(v) < 2 THEN <<>>
    ELSE IF Len(v) = 2 THEN <<v[1] * 4 + (v[2] \div 16)>>
    ELSE IF Len(v) = 3 THEN <<v[1] * 4 + (v[2] \div 16), (v[2] % 16) * 16 + (v[3] \div 4)>>
    ELSE <<v[1] * 4 + (v[2] \div 16), (v[2] % 16) * 16 + (v[3] \div 4), (v[3] % 4) * 64 + v[4]>>
         \o B64DecodeQuads(SubSeq(v, 5, Len(v)))

RECURSIVE B64Scan(_, _)
\* binascii.a2b_base64: characters outside the alphabet are skipped; a pad that
\* completes a quad ends the input
B64Scan(s, acc) ==
    IF s = <<>> THEN acc
    ELSE IF s[1] = PAD THEN
        IF Len(acc) % 4 = 3 THEN acc
        ELSE IF Len(acc) % 4 = 2 /\ Len(s) >= 2 /\ s[2] = PAD THEN acc
        ELSE B64Scan(Tail(s), acc)
    ELSE IF IsB64Char(s[1]) THEN B64Scan(Tail(s), Append(acc, B64Value(s[1])))
    ELSE B64Scan(Tail(s), acc)

\* base64.b64decode
b64decode(s) == B64DecodeQuads(B64Scan(s, <<>>))

\* utils.constant_time_compare: equality of two strings
constant_time_compare(a, b) == a = b

\* ------------------------------------------------------------------------
\* GF(2^8) and Shamir secret sharing (shamirsecret.py)
\* ------------------------------------------------------------------------

\* multiplication by x modulo the AES polynomial 0x11b
XTime(a) == IF a >= 128 THEN BXor((2 * a) % 256, 27) ELSE 2 * a

RECURSIVE GFMulBits(_, _)
\* a * b by shift and add
GFMulBits(a, b) ==
    IF b = 0 THEN 0
    ELSE BXor(IF b % 2 = 1 THEN a ELSE 0, GFMulBits(XTime(a), b \div 2))

RECURSIVE GFPow(_, _)
\* a to the power n by repeated squaring
GFPow(a, n) ==
    IF n = 0 THEN 1
    ELSE LET h == GFPow(a, n \div 2)
             sq == GFMulBits(h, h)
         IN  IF n % 2 = 1 THEN GFMulBits(sq, a) ELSE sq

\* table of the powers of the generator 0x03: 3^i at [i + 1]
GFExp == Tuple([k \in 1..255 |-> GFPow(3, k - 1)])

\* table of the logarithms to base 0x03: of x at [x]
GFLog == Tuple([x \in 1..255 |-> (CHOOSE k \in 1..255 : GFExp[k] = x) - 1])

GFMul(a, b) == IF a = 0 \/ b = 0 THEN 0 ELSE GFExp[((GFLog[a] + GFLog[b]) % 255) + 1]

\* a / b for b # 0
GFDiv(a, b) == IF a = 0 THEN 0 ELSE GFExp[((GFLog[a] + 255 - GFLog[b]) % 255) + 1]

RECURSIVE PolyEval(_, _)
\* p(x) for p = <<a0, a1, ..., an>>, by Horner's rule
PolyEval(p, x) ==
    IF p = <<>> THEN 0 ELSE BXor(p[1], GFMul(x, PolyEval(Tail(p), x)))

\* p(x) * (x + a)
PolyMulLinear(p, a) ==
    Tuple([i \in 1..(Len(p) + 1) |->
        BXor(IF i > 1 THEN p[i - 1] ELSE 0, IF i <= Len(p) THEN GFMul(a, p[i]) ELSE 0)])

RECURSIVE LagrangeNumerator(_, _, _)
\* the product of (x + xs[j]) over the j in 1..n other than i
LagrangeNumerator(xs, i, n) ==
    IF n = 0 THEN <<1>>
    ELSE IF n = i THEN LagrangeNumerator(xs, i, n - 1)
    ELSE PolyMulLinear(LagrangeNumerator(xs, i, n - 1), xs[n])

\* the i-th Lagrange basis polynomial over the points xs
LagrangeBasis(xs, i) ==
    LET num == LagrangeNumerator(xs, i, Len(xs))
        den == PolyEval(num, xs[i])
    IN  Tuple([k \in 1..Len(num) |-> GFDiv(num[k], den)])

RECURSIVE PolySum(_, _, _, _)
\* the sum over i in 1..n of ys[i] * basis[i], coefficient by coefficient
PolySum(basis, ys, n, t) ==
    IF n = 0 THEN Tuple([k \in 1..t |-> 0])
    ELSE LET rest == PolySum(basis, ys, n - 1, t)
         IN  Tuple([k \in 1..t |-> BXor(rest[k], GFMul(ys[n], basis[n][k]))])

\* The t - 1 random coefficients drawn for byte position k when a secret is
\* split: one fixed draw.
RandomCoefficient(k, j) == (k * 29 + j * 101 + 7) % 256

\* ShamirSecret(threshold, secretdata): one polynomial per byte of the secret
ShamirSplit(t, secret) ==
    [threshold |-> t,
     secretdata |-> secret,
     coefficients |->
        Tuple([k \in 1..Len(secret) |->
            Tuple([j \in 1..t |->
                IF j = 1 THEN secret[k] ELSE RandomCoefficient(k, j - 1)])])]

\* ShamirSecret(threshold): an object that holds no secret yet
ShamirEmpty(t) == [threshold |-> t, secretdata |-> NONE, coefficients |-> <<>>]

\* the share numbers: the non-zero elements of GF(2^8)
LastShare == 255

\* compute_share(n) is given for n in 1..LastShare; for another n it raises
ShareInRange(n) == n \in 1..LastShare

\* ShamirSecret.compute_share(n): (n, y) with y[k] = p_k(n)
compute_share(obj, n) ==
    <<n, Tuple([k \in 1..Len(obj.coefficients) |-> PolyEval(obj.coefficients[k], n)])>>

\* ShamirSecret.recover_secretdata(shares): the polynomials through the first
\* t shares; every further share must lie on them.  ok is FALSE where the
\* method raises (fewer than t shares, a repeated x, a share off the
\* polynomials).
recover_secretdata(obj, shares) ==
    LET t == obj.threshold
    IN  IF Len(shares) < t
           \/ \E i, j \in 1..Len(shares) : i # j /\ shares[i][1] = shares[j][1]
        THEN [ok |-> FALSE, obj |-> obj]
        ELSE LET xs == Tuple([i \in 1..t |-> shares[i][1]])
                 basis == Tuple([i \in 1..t |-> LagrangeBasis(xs, i)])
                 n == Len(shares[1][2])
                 coefs == Tuple([k \in 1..n |->
                              PolySum(basis, Tuple([i \in 1..t |-> shares[i][2][k]]), t, t)])
                 fitted == [threshold |-> t,
                            secretdata |-> Tuple([k \in 1..n |-> coefs[k][1]]),
                            coefficients |-> coefs]
             IN  IF \A i \in (t + 1)..Len(shares) :
                        compute_share(fitted, shares[i][1])[2] = shares[i][2]
                 THEN [ok |-> TRUE, obj |-> fitted]
                 ELSE [ok |-> FALSE, obj |-> obj]

\* ------------------------------------------------------------------------
\* Hash and cipher primitives
\* ------------------------------------------------------------------------

\* bytes of a SHA-256 digest
DigestLen == 32

RECURSIVE Fold(_)
Fold(s) == IF s = <<>> THEN 1 ELSE (Fold(SubSeq(s, 1, Len(s) - 1)) * 33 + s[Len(s)]) % 65521

\* PolyPasswordHasher.digest: pbkdf2(password, salt, iterations, sha256), as a
\* deterministic function into DigestLen bytes.  Every byte depends on the
\* whole input, but for the low four bits of the last byte, which depend on the
\* password through its first byte only: passwords sharing it collide on those
\* bits (the collisions a short suffix of a real digest has).  A salt of None
\* is the empty salt.
digest(password, salt, iterations) ==
    LET sb == IF salt = NONE THEN <<>> ELSE salt
        seed == (Fold(password) * 7 + Fold(sb) * 131 + iterations * 13) % 65521
        tl == (IF password = <<>> THEN 0 ELSE password[1]) * 5 + Fold(sb) * 3
                + iterations
    IN  Tuple([i \in 1..DigestLen |->
            IF i < DigestLen
            THEN (seed * (2 * i + 1) + (seed \div 256) + i) % 256
            ELSE 16 * ((seed \div 16) % 16) + (tl % 16)])

\* AES.new(key).encrypt(data): a keyed, invertible map of byte strings
AESEncrypt(key, data) ==
    Tuple([i \in 1..Len(data) |-> (data[i] + key[((i - 1) % Len(key)) + 1] + i) % 256])

\* ------------------------------------------------------------------------
\* Configuration and state
\* ------------------------------------------------------------------------

\* PolyPasswordHasher.algorithm = 'pph'
algorithm == <<112, 112, 104>>

\* PolyPasswordHasher.iterations
iterations == 12000

\* PolyPasswordHasher.threshold = SETTINGS['THRESHOLD']
threshold == 2

\* SETTINGS['SECRET_LENGTH'] and SETTINGS['SECRET_VERIFICATION_BYTES']
SECRET_LENGTH == 32
SECRET_VERIFICATION_BYTES == 4

\* the values SETTINGS['PARTIALBYTES'] takes in the model
PartialBytesSettings == {0, 2}

\* hasher processes that share the cache
Procs == {1, 2}

\* the user store holds at most MaxUsers users
MaxUsers == 2

\* _recombine is not called on an unlocked hasher once the clock reads MaxClock
MaxClock == 3

VARIABLES
    cache,         \* the 'pph' cache: hasher, sharenumbers, partial_hashes, and
                   \* shares (the numeric keys)
    data,          \* data[p]: self.data of process p's hasher
    defaults,      \* defaults[p]: the class attribute defaults of process p
    aliased,       \* aliased[p]: self.data is the very dict defaults
    users,         \* the user store: encoded password and date_joined; pw is
                   \* the password the user chose (bookkeeping)
    now,           \* the clock that utcnow() reads
    partialbytes,  \* PolyPasswordHasher.partialbytes
    initialised,   \* the master secret has been generated
    pc,            \* pc[p]: where process p's call stands
    call,          \* call[p]: the arguments and locals of process p's call
    ret,           \* ret[p]: what process p's last call returned or raised
    allocated,     \* the share numbers handed out since the last restart
    recombined     \* _recombine has been entered since the last restart

vars == <<cache, data, defaults, aliased, users, now, partialbytes, initialised,
          pc, call, ret, allocated, recombined>>

\* the class attribute data (and its copy defaults) of a process started at
\* time t
ClassData(t) ==
    [is_unlocked |-> FALSE,
     secret |-> NONE,
     nextavailableshare |-> 1,
     shamirsecretobj |-> NoneObj,
     thresholdlesskey |-> NONE,
     last_unlocked |-> t]

\* a cache that holds no key.  An absent "sharenumbers" is the empty set and an
\* absent 'partial_hashes' the empty dict: the program stores neither, and
\* treats each as it treats None.
EmptyCache ==
    [hasher |-> NoneObj, sharenumbers |-> {}, partial_hashes |-> {},
     shares |-> <<>>]

\* what a call keeps of the state it started from
Snapshot(d) ==
    [is_unlocked |-> d.is_unlocked, has_secret |-> d.secret # NONE,
     has_key |-> d.thresholdlesskey # NONE,
     nextavailableshare |-> d.nextavailableshare,
     last_unlocked |-> d.last_unlocked]

NoCall ==
    [op |-> "none", password |-> <<>>, salt |-> <<>>, iterations |-> <<>>,
     encoded |-> <<>>, fields |-> <<>>, sharenumber |-> 0, share |-> <<>>,
     sharenumbers |-> {}, partial |-> {}, result |-> FALSE, path |-> "none",
     added |-> FALSE,
     entry |-> Snapshot(ClassData(0))]

NoRet == [kind |-> "none", value |-> <<>>]
Returned(v) == [kind |-> "return", value |-> v]
Raised(e) == [kind |-> "raise", value |-> e]

\* True and False as returned values
PyTrue == <<1>>
PyFalse == <<0>>
PyBool(b) == IF b THEN PyTrue ELSE PyFalse

Init ==
    /\ cache = EmptyCache
    /\ data = [p \in Procs |-> ClassData(1)]
    /\ defaults = [p \in Procs |-> ClassData(1)]
    /\ aliased = [p \in Procs |-> FALSE]
    /\ users = {}
    /\ now = 1
    /\ partialbytes \in PartialBytesSettings
    /\ initialised = FALSE
    /\ pc = [p \in Procs |-> "idle"]
    /\ call = [p \in Procs |-> NoCall]
    /\ ret = [p \in Procs |-> NoRet]
    /\ allocated = <<>>
    /\ recombined = FALSE

\* ------------------------------------------------------------------------
\* The hasher's helpers
\* ------------------------------------------------------------------------

\* PolyPasswordHasher.load: what self.data becomes, and whether it is the
\* dict defaults itself
load_data(p) == IF cache.hasher # NoneObj THEN cache.hasher ELSE defaults[p]
load_aliased(p) == cache.hasher = NoneObj

\* PolyPasswordHasher.update(): the cache after cache.set('hasher', self.data)
update(d) == [cache EXCEPT !.hasher = d]

\* self.data, and defaults too when it is the same dict, become d
SetData(p, d, a) ==
    /\ data' = [data EXCEPT ![p] = d]
    /\ aliased' = [aliased EXCEPT ![p] = a]
    /\ defaults' = [defaults EXCEPT ![p] = IF a THEN d ELSE @]

\* the five fields joined by '$'
Join5(f1, f2, f3, f4, f5) ==
    f1 \o <<DOLLAR>> \o f2 \o <<DOLLAR>> \o f3 \o <<DOLLAR>> \o f4 \o <<DOLLAR>> \o f5

\* PolyPasswordHasher._polyhash_entry
polyhash_entry(d, password, salt, sharenumber) ==
    LET saltedpasswordhash == digest(password, salt, iterations)
        shamirsecretdata == compute_share(d.shamirsecretobj, sharenumber)[2]
    IN  bin64enc(do_bytearray_xor(saltedpasswordhash, shamirsecretdata))
            \o b64enc(Tail_n(saltedpasswordhash, partialbytes))

\* PolyPasswordHasher._encrypt_entry
encrypt_entry(d, password, salt) ==
    LET saltedpasswordhash == digest(password, salt, iterations)
    IN  bin64enc(AESEncrypt(d.thresholdlesskey, saltedpasswordhash))
            \o b64enc(Tail_n(saltedpasswordhash, partialbytes))

\* _partial_verify comparing the whole of the two strings, not their last
\* partialbytes characters
partial_verify_whole(password, salt, passhash, iters) ==
    LET saltedpasswordhash == b64enc(digest(password, salt, iters))
    IN  constant_time_compare(saltedpasswordhash, passhash)

\* PolyPasswordHasher._partial_verify: the comparison it returns
partial_verify(password, salt, passhash, iters) ==
    LET saltedpasswordhash == b64enc(digest(password, salt, iters))
    IN  constant_time_compare(Tail_n(saltedpasswordhash, partialbytes),
                              Tail_n(passhash, partialbytes))

\* PolyPasswordHasher._partial_verify: the dict it writes back after a match
partial_insert(partial, password, salt, passhash, iters, sharenumber) ==
    IF \E e \in partial : e.passhash = passhash THEN partial
    ELSE partial \cup {[passhash |-> passhash, sharenumber |-> sharenumber,
                      saltedhash |-> b64enc(digest(password, salt, iters))]}

\* PolyPasswordHasher._get_share_from_hash
get_share_from_hash(password, salt, passhash, iters) ==
    LET saltedpasswordhash == digest(password, salt, iters)
        byte_passhash == b64decode(Head_n(passhash, partialbytes))
    IN  do_bytearray_xor(byte_passhash, saltedpasswordhash)

\* PolyPasswordHasher.verify_secret
verify_secret(secret) ==
    LET random_data == SliceTo(secret, SECRET_LENGTH - SECRET_VERIFICATION_BYTES)
        secret_hash_text == SliceTo(b64enc(digest(random_data, NONE, 1)),
                                    SECRET_VERIFICATION_BYTES)
    IN  constant_time_compare(
            SliceFrom(secret, SECRET_LENGTH - SECRET_VERIFICATION_BYTES),
            secret_hash_text)

\* ------------------------------------------------------------------------
\* Inputs
\* ------------------------------------------------------------------------

\* "pw1", "pwX" (whose digests agree with those of "pw1" on the low four bits
\* of the last byte, and on nothing else) and "wrong"
PW1 == <<112, 119, 49>>
PWX == <<112, 119, 88>>
WRONG == <<119, 114, 111, 110, 103>>
Passwords == {PW1, PWX, WRONG}

\* "a" and "$b$"
Salts == {<<97>>, <<36, 98, 36>>}

\* a salt wrapped in $...$
Wrapped(salt) == Len(salt) >= 2 /\ salt[1] = DOLLAR /\ salt[Len(salt)] = DOLLAR

\* the optional argument iterations: absent, or 1000
IterationArgs == {<<>>, <<1000>>}

\* ------------------------------------------------------------------------
\* The environment: store setup and restart
\* ------------------------------------------------------------------------

\* the master secret: random bytes followed by their fingerprint
MasterSecret ==
    LET random_data == Tuple([i \in 1..(SECRET_LENGTH - SECRET_VERIFICATION_BYTES) |->
                            (i * 37 + 11) % 256])
    IN  random_data \o SliceTo(b64enc(digest(random_data, NONE, 1)),
                               SECRET_VERIFICATION_BYTES)

\* The store is created: a process generates the master secret, splits it and
\* persists the unlocked state.
SetupStore(p) ==
    /\ ~initialised
    /\ users = {}
    /\ \A q \in Procs : pc[q] = "idle"
    /\ LET d == [data[p] EXCEPT
                    !.is_unlocked = TRUE,
                    !.secret = MasterSecret,
                    !.shamirsecretobj = ShamirSplit(threshold, MasterSecret),
                    !.thresholdlesskey = MasterSecret]
       IN  /\ SetData(p, d, aliased[p])
           /\ cache' = update(d)
    /\ initialised' = TRUE
    /\ UNCHANGED <<users, now, partialbytes, pc, call, ret, allocated, recombined>>

\* Every process and the cache restart: the cache is empty, every hasher is
\* the class as defined at the restart, and every user joined before it.
Restart ==
    /\ cache' = EmptyCache
    /\ data' = [p \in Procs |-> ClassData(1)]
    /\ defaults' = [p \in Procs |-> ClassData(1)]
    /\ aliased' = [p \in Procs |-> FALSE]
    /\ users' = {[u EXCEPT !.date_joined = 0] : u \in users}
    /\ now' = 1
    /\ pc' = [p \in Procs |-> "idle"]
    /\ call' = [p \in Procs |-> NoCall]
    /\ ret' = [p \in Procs |-> NoRet]
    /\ allocated' = <<>>
    /\ recombined' = FALSE
    /\ UNCHANGED <<partialbytes, initialised>>

\* ------------------------------------------------------------------------
\* encode
\* ------------------------------------------------------------------------

\* the call returns or raises r, with c the record of the call
Done(p, c, r) ==
    /\ pc' = [pc EXCEPT ![p] = "returned"]
    /\ call' = [call EXCEPT ![p] =
                    [c EXCEPT !.share = <<>>, !.sharenumbers = {}, !.partial = {}]]
    /\ ret' = [ret EXCEPT ![p] = r]

\* the call goes on at label l
Goto(p, l, c) ==
    /\ pc' = [pc EXCEPT ![p] = l]
    /\ call' = [call EXCEPT ![p] = c]
    /\ ret' = [ret EXCEPT ![p] = NoRet]

\* encode hashing with the iteration count it was passed, where
\* _polyhash_entry and _encrypt_entry hash with self.iterations
encode_string_its(d, password, salt, iters, sharenumber) ==
    LET its == IF iters = <<>> THEN iterations ELSE iters[1]
        saltedpasswordhash == digest(password, salt, its)
        partial == b64enc(Tail_n(saltedpasswordhash, partialbytes))
    IN  IF ~d.is_unlocked \/ d.thresholdlesskey = NONE
        THEN Join5(algorithm, <<MINUS>> \o FormatInt(sharenumber), FormatInt(its),
                   salt, b64enc(saltedpasswordhash))
        ELSE Join5(algorithm, FormatInt(sharenumber), FormatInt(its), salt,
                   IF sharenumber = 0
                   THEN bin64enc(AESEncrypt(d.thresholdlesskey, saltedpasswordhash))
                            \o partial
                   ELSE bin64enc(do_bytearray_xor(
                                    saltedpasswordhash,
                                    compute_share(d.shamirsecretobj, sharenumber)[2]))
                            \o partial)

\* encode leaving the '-' out of the share field of a locked hasher's string
encode_string_unmarked(d, password, salt, iters, sharenumber) ==
    LET its == IF iters = <<>> THEN iterations ELSE iters[1]
    IN  IF ~d.is_unlocked \/ d.thresholdlesskey = NONE
        THEN Join5(algorithm, FormatInt(sharenumber), FormatInt(its),
                   salt, b64enc(digest(password, salt, its)))
        ELSE Join5(algorithm, FormatInt(sharenumber), FormatInt(its), salt,
                   IF sharenumber = 0
                   THEN encrypt_entry(d, password, salt)
                   ELSE polyhash_entry(d, password, salt, sharenumber))

\* encode, lines 77-105: the string returned for the stripped salt and the
\* share number
encode_string(d, password, salt, iters, sharenumber) ==
    LET its == IF iters = <<>> THEN iterations ELSE iters[1]
    IN  IF ~d.is_unlocked \/ d.thresholdlesskey = NONE
        THEN Join5(algorithm, <<MINUS>> \o FormatInt(sharenumber), FormatInt(its),
                   salt, b64enc(digest(password, salt, its)))
        ELSE Join5(algorithm, FormatInt(sharenumber), FormatInt(its), salt,
                   IF sharenumber = 0
                   THEN encrypt_entry(d, password, salt)
                   ELSE polyhash_entry(d, password, salt, sharenumber))

\* the caller stores what encode returned as a new user's password
SaveUser(encoded, password) ==
    users' = users \cup {[password |-> encoded, date_joined |-> now, pw |-> password]}

\* encode handing out nextavailableshare without incrementing it
encode_body_kept(p, d, a, c) ==
    IF Contains(c.salt, DOLLAR)
    THEN LET sharenumber == d.nextavailableshare
             enc == encode_string(d, c.password, Strip(c.salt, DOLLAR),
                                  c.iterations, sharenumber)
         IN  /\ SetData(p, d, a)
             /\ cache' = update(d)
             /\ allocated' = Append(allocated, sharenumber)
             /\ SaveUser(enc, c.password)
             /\ Done(p, [c EXCEPT !.sharenumber = sharenumber], Returned(enc))
    ELSE LET enc == encode_string(d, c.password, c.salt, c.iterations, 0)
         IN  /\ SetData(p, d, a)
             /\ UNCHANGED <<cache, allocated>>
             /\ SaveUser(enc, c.password)
             /\ Done(p, [c EXCEPT !.sharenumber = 0], Returned(enc))

\* encode, lines 69-105, from the allocation of a share number on
encode_body(p, d, a, c) ==
    IF Contains(c.salt, DOLLAR)
    THEN LET sharenumber == d.nextavailableshare
             d2 == [d EXCEPT !.nextavailableshare = @ + 1]
             enc == encode_string(d2, c.password, Strip(c.salt, DOLLAR),
                                  c.iterations, sharenumber)
         IN  /\ SetData(p, d2, a)
             /\ cache' = update(d2)
             /\ allocated' = Append(allocated, sharenumber)
             /\ IF d2.is_unlocked /\ d2.thresholdlesskey # NONE
                   /\ ~ShareInRange(sharenumber)
                THEN /\ UNCHANGED users
                     /\ Done(p, [c EXCEPT !.sharenumber = sharenumber],
                             Raised("ValueError"))
                ELSE /\ SaveUser(enc, c.password)
                     /\ Done(p, [c EXCEPT !.sharenumber = sharenumber], Returned(enc))
    ELSE LET enc == encode_string(d, c.password, c.salt, c.iterations, 0)
         IN  /\ SetData(p, d, a)
             /\ UNCHANGED <<cache, allocated>>
             /\ SaveUser(enc, c.password)
             /\ Done(p, [c EXCEPT !.sharenumber = 0], Returned(enc))

\* users stored or about to be
UsersPending == Cardinality(users) + Cardinality({q \in Procs : pc[q] = "encode_alloc"})

\* encode is called, the user store holding fewer than room users.  A locked
\* hasher loads the state from the cache; the allocation, which writes the
\* cache, is then a step of its own.
EncodeCallUpTo(p, password, salt, iters, room) ==
    /\ pc[p] = "idle"
    /\ UsersPending < room
    /\ LET c == [NoCall EXCEPT !.op = "encode", !.password = password,
                               !.salt = salt, !.iterations = iters]
       IN  IF ~data[p].is_unlocked
           THEN LET d == load_data(p)
                    ce == [c EXCEPT !.entry = Snapshot(d)]
                IN  IF Contains(salt, DOLLAR)
                    THEN /\ SetData(p, d, load_aliased(p))
                         /\ Goto(p, "encode_alloc", ce)
                         /\ UNCHANGED <<cache, users, allocated>>
                    ELSE encode_body(p, d, load_aliased(p), ce)
           ELSE encode_body(p, data[p], aliased[p], [c EXCEPT !.entry = Snapshot(data[p])])
    /\ UNCHANGED <<now, partialbytes, initialised, recombined>>

\* encode is called
EncodeCall(p, password, salt, iters) == EncodeCallUpTo(p, password, salt, iters, MaxUsers)

\* encode, lines 70-105, after the load
EncodeAlloc(p) ==
    /\ pc[p] = "encode_alloc"
    /\ encode_body(p, data[p], aliased[p], call[p])
    /\ UNCHANGED <<now, partialbytes, initialised, recombined>>

\* ------------------------------------------------------------------------
\* verify
\* ------------------------------------------------------------------------

\* the fields of an encoded string that splits into five
Fields(f) ==
    [algorithm |-> f[1], sharenumber |-> f[2], iterations |-> f[3], salt |-> f[4],
     original_hash |-> f[5]]

\* the locked path answering False where it raises LockedException
PartialStage_false(p, c) ==
    IF partialbytes > 0
    THEN IF partial_verify(c.password, c.fields.salt, c.fields.original_hash,
                           ParseInt(c.fields.iterations))
         THEN Goto(p, "partial_get", [c EXCEPT !.result = TRUE])
         ELSE Done(p, [c EXCEPT !.result = FALSE], Returned(PyFalse))
    ELSE Done(p, c, Returned(PyFalse))

\* verify, lines 183-190: the partial verification that ends the locked path.
\* A match goes on to record the hash in the cache.
PartialStage(p, c) ==
    IF partialbytes > 0
    THEN IF partial_verify(c.password, c.fields.salt, c.fields.original_hash,
                           ParseInt(c.fields.iterations))
         THEN Goto(p, "partial_get", [c EXCEPT !.result = TRUE])
         ELSE Done(p, [c EXCEPT !.result = FALSE], Returned(PyFalse))
    ELSE Done(p, c, Raised("LockedException"))

\* verify, lines 111-156, on the state d
verify_body(p, d, c0) ==
    LET f == Split(c0.encoded, DOLLAR, 4)
    IN  IF Len(f) # 5 THEN Done(p, c0, Raised("ValueError"))
        ELSE IF f[1] # algorithm THEN Done(p, c0, Raised("AssertionError"))
        ELSE IF ~IsInt(f[3]) \/ (~StartsWith(f[2], MINUS) /\ ~IsInt(f[2]))
        THEN Done(p, c0, Raised("ValueError"))
        ELSE
        LET c == [c0 EXCEPT !.fields = Fields(f)]
            its == ParseInt(f[3])
        IN  IF StartsWith(f[2], MINUS)
            THEN LET passhash == b64enc(digest(c.password, f[4], its))
                     res == constant_time_compare(passhash, f[5])
                 IN  Done(p, [c EXCEPT !.path = "plain", !.result = res],
                          Returned(PyBool(res)))
            ELSE
            LET sharenumber == ParseInt(f[2])
                cs == [c EXCEPT !.sharenumber = sharenumber]
            IN  IF d.secret # NONE /\ d.thresholdlesskey # NONE
                THEN LET proposed_hash ==
                             IF sharenumber # 0
                             THEN polyhash_entry(d, c.password, f[4], sharenumber)
                             ELSE encrypt_entry(d, c.password, f[4])
                         partial_result == partial_verify(c.password, f[4], f[5], its)
                         res == constant_time_compare(f[5], proposed_hash)
                         cu == [cs EXCEPT !.path = "unlocked", !.result = res]
                     IN  IF partial_result
                         THEN Goto(p, "partial_get", cu)
                         ELSE Done(p, cu, Returned(PyBool(res)))
                ELSE IF sharenumber # 0
                     THEN Goto(p, "share_get",
                               [cs EXCEPT !.path = "locked",
                                          !.share = get_share_from_hash(
                                                        c.password, f[4], f[5], its)])
                     ELSE PartialStage(p, [cs EXCEPT !.path = "locked"])

\* verify is called; a locked hasher loads the state from the cache
VerifyCall(p, password, encoded) ==
    /\ pc[p] = "idle"
    /\ LET d == IF ~data[p].is_unlocked THEN load_data(p) ELSE data[p]
           a == IF ~data[p].is_unlocked THEN load_aliased(p) ELSE aliased[p]
           c == [NoCall EXCEPT !.op = "verify", !.password = password,
                               !.encoded = encoded, !.entry = Snapshot(d)]
       IN  /\ SetData(p, d, a)
           /\ verify_body(p, d, c)
    /\ UNCHANGED <<cache, users, now, partialbytes, initialised, allocated, recombined>>

\* verify replacing a cached share that differs from the new one
ShareGet_overwrite(p) ==
    /\ pc[p] = "share_get"
    /\ LET c == call[p]
       IN  IF c.sharenumber \in DOMAIN cache.shares
              /\ constant_time_compare(b64enc(cache.shares[c.sharenumber]),
                                       b64enc(c.share))
           THEN PartialStage(p, c)
           ELSE Goto(p, "share_set", c)
    /\ UNCHANGED <<cache, data, defaults, aliased, users, now, partialbytes,
                   initialised, allocated, recombined>>

\* verify, lines 159-167: the cached share is read and compared
ShareGet(p) ==
    /\ pc[p] = "share_get"
    /\ LET c == call[p]
       IN  IF c.sharenumber \in DOMAIN cache.shares
           THEN IF ~constant_time_compare(b64enc(cache.shares[c.sharenumber]),
                                          b64enc(c.share))
                THEN Done(p, c, Raised("Exception: cached share mismatch"))
                ELSE PartialStage(p, c)
           ELSE Goto(p, "share_set", c)
    /\ UNCHANGED <<cache, data, defaults, aliased, users, now, partialbytes,
                   initialised, allocated, recombined>>

\* the mapping m with key k set to v
MapSet(m, k, v) == [x \in DOMAIN m \cup {k} |-> IF x = k THEN v ELSE m[x]]

\* verify, line 171: cache.set(sharenumber, share)
ShareSet(p) ==
    /\ pc[p] = "share_set"
    /\ cache' = [cache EXCEPT !.shares = MapSet(@, call[p].sharenumber, call[p].share)]
    /\ Goto(p, "numbers_get", [call[p] EXCEPT !.added = TRUE])
    /\ UNCHANGED <<data, defaults, aliased, users, now, partialbytes, initialised,
                   allocated, recombined>>

\* verify, lines 172-177: the set of share numbers is read and added to
NumbersGet(p) ==
    /\ pc[p] = "numbers_get"
    /\ Goto(p, "numbers_set",
            [call[p] EXCEPT !.sharenumbers = cache.sharenumbers \cup {call[p].sharenumber}])
    /\ UNCHANGED <<cache, data, defaults, aliased, users, now, partialbytes,
                   initialised, allocated, recombined>>

\* verify, lines 178-181: the set is written back, and decides on _recombine
NumbersSet(p) ==
    /\ pc[p] = "numbers_set"
    /\ cache' = [cache EXCEPT !.sharenumbers = call[p].sharenumbers]
    /\ IF Cardinality(call[p].sharenumbers) >= threshold
       THEN Goto(p, "recombine", call[p])
       ELSE PartialStage(p, call[p])
    /\ UNCHANGED <<data, defaults, aliased, users, now, partialbytes, initialised,
                   allocated, recombined>>

\* _recombine is called on a hasher that is unlocked
RecombineCall(p) ==
    /\ pc[p] = "idle"
    /\ data[p].is_unlocked
    /\ now < MaxClock
    /\ Goto(p, "recombine",
            [NoCall EXCEPT !.op = "recombine", !.entry = Snapshot(data[p])])
    /\ UNCHANGED <<cache, data, defaults, aliased, users, now, partialbytes,
                   initialised, allocated, recombined>>

RECURSIVE Ascending(_)
\* the members of a set of numbers, smallest first: the order in which Python
\* iterates over a set of small integers
Ascending(S) ==
    IF S = {} THEN <<>>
    ELSE LET m == CHOOSE x \in S : \A y \in S : x <= y
         IN  <<m>> \o Ascending(S \ {m})

\* _recombine marking the hasher unlocked before the fingerprint of the
\* recovered secret is checked
Recombine_unverified(p) ==
    /\ pc[p] = "recombine"
    /\ recombined' = TRUE
    /\ LET sharenumbers == cache.sharenumbers
           order == Ascending(sharenumbers)
       IN  IF sharenumbers = {} \/ \E n \in sharenumbers : n \notin DOMAIN cache.shares
           THEN /\ Done(p, call[p], Raised("AssertionError"))
                /\ UNCHANGED <<data, defaults, aliased>>
           ELSE
           LET recombination_shares ==
                   Tuple([i \in 1..Len(order) |-> <<order[i], cache.shares[order[i]]>>])
               r == recover_secretdata(ShamirEmpty(threshold), recombination_shares)
               d1 == [data[p] EXCEPT !.shamirsecretobj = r.obj]
               d2 == [d1 EXCEPT !.secret = r.obj.secretdata, !.is_unlocked = TRUE]
               d3 == [d2 EXCEPT !.thresholdlesskey = d2.secret, !.is_unlocked = TRUE]
           IN  IF ~r.ok
               THEN /\ SetData(p, d1, aliased[p])
                    /\ Done(p, call[p], Raised("Exception: recover_secretdata"))
               ELSE IF ~verify_secret(d2.secret)
               THEN /\ SetData(p, d2, aliased[p])
                    /\ Done(p, call[p], Raised("Exception: Couldn't recombine store!"))
               ELSE /\ SetData(p, d3, aliased[p])
                    /\ Goto(p, "recombine_sweep", call[p])
    /\ UNCHANGED <<cache, users, now, partialbytes, initialised, allocated>>

\* _recombine taking the recovered secret as the thresholdless key before its
\* fingerprint is checked
Recombine_keyed(p) ==
    /\ pc[p] = "recombine"
    /\ recombined' = TRUE
    /\ LET sharenumbers == cache.sharenumbers
           order == Ascending(sharenumbers)
       IN  IF sharenumbers = {} \/ \E n \in sharenumbers : n \notin DOMAIN cache.shares
           THEN /\ Done(p, call[p], Raised("AssertionError"))
                /\ UNCHANGED <<data, defaults, aliased>>
           ELSE
           LET recombination_shares ==
                   Tuple([i \in 1..Len(order) |-> <<order[i], cache.shares[order[i]]>>])
               r == recover_secretdata(ShamirEmpty(threshold), recombination_shares)
               d1 == [data[p] EXCEPT !.shamirsecretobj = r.obj]
               d2 == [d1 EXCEPT !.secret = r.obj.secretdata,
                               !.thresholdlesskey = r.obj.secretdata]
               d3 == [d2 EXCEPT !.thresholdlesskey = d2.secret, !.is_unlocked = TRUE]
           IN  IF ~r.ok
               THEN /\ SetData(p, d1, aliased[p])
                    /\ Done(p, call[p], Raised("Exception: recover_secretdata"))
               ELSE IF ~verify_secret(d2.secret)
               THEN /\ SetData(p, d2, aliased[p])
                    /\ Done(p, call[p], Raised("Exception: Couldn't recombine store!"))
               ELSE /\ SetData(p, d3, aliased[p])
                    /\ Goto(p, "recombine_sweep", call[p])
    /\ UNCHANGED <<cache, users, now, partialbytes, initialised, allocated>>

\* _recombine, lines 325-343: the shares are read and the secret recovered
Recombine(p) ==
    /\ pc[p] = "recombine"
    /\ recombined' = TRUE
    /\ LET sharenumbers == cache.sharenumbers
           order == Ascending(sharenumbers)
       IN  IF sharenumbers = {} \/ \E n \in sharenumbers : n \notin DOMAIN cache.shares
           THEN /\ Done(p, call[p], Raised("AssertionError"))
                /\ UNCHANGED <<data, defaults, aliased>>
           ELSE
           LET recombination_shares ==
                   Tuple([i \in 1..Len(order) |-> <<order[i], cache.shares[order[i]]>>])
               r == recover_secretdata(ShamirEmpty(threshold), recombination_shares)
               d1 == [data[p] EXCEPT !.shamirsecretobj = r.obj]
               d2 == [d1 EXCEPT !.secret = r.obj.secretdata]
               d3 == [d2 EXCEPT !.thresholdlesskey = d2.secret, !.is_unlocked = TRUE]
           IN  IF ~r.ok
               THEN /\ SetData(p, d1, aliased[p])
                    /\ Done(p, call[p], Raised("Exception: recover_secretdata"))
               ELSE IF ~verify_secret(d2.secret)
               THEN /\ SetData(p, d2, aliased[p])
                    /\ Done(p, call[p], Raised("Exception: Couldn't recombine store!"))
               ELSE /\ SetData(p, d3, aliased[p])
                    /\ Goto(p, "recombine_sweep", call[p])
    /\ UNCHANGED <<cache, users, now, partialbytes, initialised, allocated>>

\* _update_locked_hashes: the users it rewrites are those that joined since
\* last_unlocked and hold a locked-mode ('-n') password
SweepRange(d) == {u \in users : u.date_joined >= d.last_unlocked}
IsLockedMode(u) ==
    LET f == Split(u.password, DOLLAR, 4) IN Len(f) = 5 /\ StartsWith(f[2], MINUS)

\* what rewriting user u raises: the format string of line 389 names a field s
\* that is not given, and line 393 calls a name that is not defined
SweepError(u) ==
    LET f == Split(u.password, DOLLAR, 4)
    IN  IF ParseInt(f[2]) = 0 THEN "KeyError" ELSE "NameError"

\* _recombine taking a share number when it persists the state
RecombineSweep_allocate(p) ==
    /\ pc[p] = "recombine_sweep"
    /\ \/ /\ \E u \in SweepRange(data[p]) :
                /\ IsLockedMode(u)
                /\ Done(p, call[p], Raised(SweepError(u)))
          /\ UNCHANGED <<cache, data, defaults, aliased, now>>
       \/ /\ \A u \in SweepRange(data[p]) : ~IsLockedMode(u)
          /\ now' = now + 1
          /\ LET d == [data[p] EXCEPT !.last_unlocked = now + 1,
                                      !.nextavailableshare = @ + 1]
             IN  /\ SetData(p, d, aliased[p])
                 /\ cache' = update(d)
          /\ IF call[p].op = "recombine"
             THEN Done(p, call[p], Returned(NONE))
             ELSE PartialStage(p, call[p])
    /\ UNCHANGED <<users, partialbytes, initialised, allocated, recombined>>

\* _recombine, lines 345-349: the audit of the partial hashes (which only
\* logs), the sweep of the locked hashes, and the update.  The sweep raises at
\* the first locked-mode user it meets; with none, the state is persisted and
\* _recombine returns None: verify goes on to its partial verification.
RecombineSweep(p) ==
    /\ pc[p] = "recombine_sweep"
    /\ \/ /\ \E u \in SweepRange(data[p]) :
                /\ IsLockedMode(u)
                /\ Done(p, call[p], Raised(SweepError(u)))
          /\ UNCHANGED <<cache, data, defaults, aliased, now>>
       \/ /\ \A u \in SweepRange(data[p]) : ~IsLockedMode(u)
          /\ now' = now + 1
          /\ LET d == [data[p] EXCEPT !.last_unlocked = now + 1]
             IN  /\ SetData(p, d, aliased[p])
                 /\ cache' = update(d)
          /\ IF call[p].op = "recombine"
             THEN Done(p, call[p], Returned(NONE))
             ELSE PartialStage(p, call[p])
    /\ UNCHANGED <<users, partialbytes, initialised, allocated, recombined>>

\* _partial_verify, lines 249-255: the dict of partially verified hashes is
\* read and the hash added to it
PartialGet(p) ==
    /\ pc[p] = "partial_get"
    /\ LET c == call[p]
       IN  Goto(p, "partial_set",
                [c EXCEPT !.partial =
                    partial_insert(cache.partial_hashes, c.password, c.fields.salt,
                                   c.fields.original_hash,
                                   ParseInt(c.fields.iterations), c.sharenumber)])
    /\ UNCHANGED <<cache, data, defaults, aliased, users, now, partialbytes,
                   initialised, allocated, recombined>>

\* _partial_verify, line 256, and the return of verify: the result of the full
\* comparison on the unlocked path, of the partial one on the locked path
PartialSet(p) ==
    /\ pc[p] = "partial_set"
    /\ cache' = [cache EXCEPT !.partial_hashes = call[p].partial]
    /\ Done(p, call[p], Returned(PyBool(call[p].result)))
    /\ UNCHANGED <<data, defaults, aliased, users, now, partialbytes, initialised,
                   allocated, recombined>>

\* the caller has taken what the call returned or raised
Return(p) ==
    /\ pc[p] = "returned"
    /\ pc' = [pc EXCEPT ![p] = "idle"]
    /\ call' = [call EXCEPT ![p] = NoCall]
    /\ ret' = [ret EXCEPT ![p] = NoRet]
    /\ UNCHANGED <<cache, data, defaults, aliased, users, now, partialbytes,
                   initialised, allocated, recombined>>

\* ------------------------------------------------------------------------
\* Specifications
\* ------------------------------------------------------------------------

\* a step of process p with the passwords, salts and iteration arguments
\* that callers pass to it
Step(p, NewPasswords, TriedPasswords, SaltArgs, IterArgs) ==
    \/ \E password \in NewPasswords, salt \in SaltArgs, iters \in IterArgs :
            EncodeCall(p, password, salt, iters)
    \/ EncodeAlloc(p)
    \/ \E password \in TriedPasswords, u \in users : VerifyCall(p, password, u.password)
    \/ ShareGet(p)
    \/ ShareSet(p)
    \/ NumbersGet(p)
    \/ NumbersSet(p)
    \/ Recombine(p)
    \/ RecombineSweep(p)
    \/ PartialGet(p)
    \/ PartialSet(p)
    \/ Return(p)
    \/ SetupStore(p)

\* one hasher process, with every input, on which _recombine is also called
\* directly
NextSeq ==
    \/ Restart
    \/ Step(1, {PW1}, Passwords, Salts, IterationArgs)
    \/ RecombineCall(1)

SpecSeq == Init /\ [][NextSeq]_vars

\* every hasher process, with the accounts that hold a share: passwords encoded
\* with a wrapped salt and the default iterations, and verified
Next ==
    \/ Restart
    \/ \E p \in Procs : Step(p, {PW1}, {PW1}, {s \in Salts : Wrapped(s)}, {<<>>})

Spec == Init /\ [][Next]_vars

\* the user store of the processes with roles holds at most MaxRoleUsers users
MaxRoleUsers == 3

\* two processes with roles: process 2 creates the store and the accounts,
\* with the default iterations; process 1 verifies them with their password
NextRoles ==
    \/ Restart
    \/ SetupStore(2)
    \/ \E salt \in Salts : EncodeCallUpTo(2, PW1, salt, <<>>, MaxRoleUsers)
    \/ EncodeAlloc(2)
    \/ \E u \in users : VerifyCall(1, PW1, u.password)
    \/ ShareGet(1)
    \/ ShareSet(1)
    \/ NumbersGet(1)
    \/ NumbersSet(1)
    \/ Recombine(1)
    \/ RecombineSweep(1)
    \/ PartialGet(1)
    \/ PartialSet(1)
    \/ \E p \in Procs : Return(p)

SpecRoles == Init /\ [][NextRoles]_vars

\* the salts of Salts, and "$c" and "a$b"
EncodeSalts == Salts \cup {<<36, 99>>, <<97, 36, 98>>}

\* one hasher process that encodes, with every salt
NextEncode ==
    \/ Restart
    \/ SetupStore(1)
    \/ \E salt \in EncodeSalts, iters \in IterationArgs : EncodeCall(1, PW1, salt, iters)
    \/ EncodeAlloc(1)
    \/ Return(1)

SpecEncode == Init /\ [][NextEncode]_vars

\* nextavailableshare is not taken beyond MaxShareCounter
MaxShareCounter == 257

\* the persisted state of a store that has handed out every share number but
\* the last: of an unlocked store, and of a locked one
WornState(unlocked) ==
    IF unlocked
    THEN [ClassData(1) EXCEPT
            !.is_unlocked = TRUE,
            !.secret = MasterSecret,
            !.shamirsecretobj = ShamirSplit(threshold, MasterSecret),
            !.thresholdlesskey = MasterSecret,
            !.nextavailableshare = LastShare]
    ELSE [ClassData(1) EXCEPT !.nextavailableshare = LastShare]

\* hasher processes that start on such a store
InitWorn ==
    /\ \E unlocked \in BOOLEAN : cache = [EmptyCache EXCEPT !.hasher = WornState(unlocked)]
    /\ data = [p \in Procs |-> ClassData(1)]
    /\ defaults = [p \in Procs |-> ClassData(1)]
    /\ aliased = [p \in Procs |-> FALSE]
    /\ users = {}
    /\ now = 1
    /\ partialbytes \in PartialBytesSettings
    /\ initialised = TRUE
    /\ pc = [p \in Procs |-> "idle"]
    /\ call = [p \in Procs |-> NoCall]
    /\ ret = [p \in Procs |-> NoRet]
    /\ allocated = <<>>
    /\ recombined = FALSE

\* one hasher process that encodes on it
NextWorn ==
    \/ /\ cache.hasher.nextavailableshare < MaxShareCounter
       /\ \E salt \in Salts, iters \in IterationArgs :
                EncodeCallUpTo(1, PW1, salt, iters, MaxRoleUsers)
    \/ EncodeAlloc(1)
    \/ Return(1)

SpecWorn == InitWorn /\ [][NextWorn]_vars

\* ------------------------------------------------------------------------
\* Properties
\* ------------------------------------------------------------------------

\* process p's call of op has returned or raised
After(p, op) == pc[p] = "returned" /\ call[p].op = op

\* the fields of user u's stored password
EntryOf(u) == Fields(Split(u.password, DOLLAR, 4))

\* u holds an unlocked-form entry with a share number above 0
IsThresholdAccount(u) ==
    /\ ~StartsWith(EntryOf(u).sharenumber, MINUS)
    /\ ParseInt(EntryOf(u).sharenumber) > 0

\* the candidate share that verifying u with u's own password recovers
CandidateOf(u) ==
    get_share_from_hash(u.pw, EntryOf(u).salt, EntryOf(u).original_hash,
                        ParseInt(EntryOf(u).iterations))

\* every cached candidate share is the one that verifying a threshold account
\* with its correct password leaves
OnlyCorrectCandidates ==
    \A n \in DOMAIN cache.shares :
        \E u \in users :
            /\ IsThresholdAccount(u)
            /\ ParseInt(EntryOf(u).sharenumber) = n
            /\ cache.shares[n] = CandidateOf(u)

\* process p has verified a threshold account with its correct password, on a
\* hasher that was locked and held no secret, and has cached its share
CorrectLockedVerify(p) ==
    /\ After(p, "verify")
    /\ call[p].path = "locked"
    /\ call[p].added
    /\ ~call[p].entry.is_unlocked
    /\ ~call[p].entry.has_secret
    /\ \E u \in users : u.password = call[p].encoded /\ u.pw = call[p].password

\* what verify raises for a cached share that differs, and what it raises out
\* of _recombine
ShareConflict == "Exception: cached share mismatch"
RecombineErrors ==
    {"AssertionError", "Exception: recover_secretdata",
     "Exception: Couldn't recombine store!", "KeyError", "NameError"}

\* C1: from a locked hasher with no cached candidate shares, once threshold
\* threshold accounts with distinct share numbers have been verified with their
\* correct passwords the hasher is unlocked, holds the secret and the
\* thresholdless key, and last_unlocked has advanced; with fewer the hasher is
\* still locked and _recombine has not been entered.
C1_UnlockAtThreshold ==
    \A p \in Procs :
        (CorrectLockedVerify(p) /\ OnlyCorrectCandidates)
        => IF Cardinality(DOMAIN cache.shares) = threshold
           THEN /\ data[p].is_unlocked
                /\ data[p].secret # NONE
                /\ data[p].thresholdlesskey # NONE
                /\ data[p].last_unlocked > call[p].entry.last_unlocked
           ELSE Cardinality(DOMAIN cache.shares) < threshold
                => (~data[p].is_unlocked /\ ~recombined)

\* C2: on an unlocked hasher, verify of a string that encode returned, for
\* whatever salt and iteration count, is True for the password that was
\* encoded and False for every password whose salted hash differs.
C2_UnlockedRoundTrip ==
    \A p \in Procs :
        (After(p, "verify") /\ call[p].path = "unlocked" /\ call[p].entry.is_unlocked)
        => \A u \in users :
               (u.password = call[p].encoded)
               => LET its == ParseInt(EntryOf(u).iterations)
                      salt == EntryOf(u).salt
                  IN  /\ (call[p].password = u.pw) => (ret[p] = Returned(PyTrue))
                      /\ (digest(call[p].password, salt, its) # digest(u.pw, salt, its))
                         => (ret[p] = Returned(PyFalse))

\* a True verify, on an unlocked hasher, of a threshold entry that was encoded
\* with 1000 iterations
C2_Witness ==
    \E p \in Procs :
        /\ After(p, "verify")
        /\ call[p].path = "unlocked"
        /\ call[p].sharenumber > 0
        /\ call[p].fields.iterations = FormatInt(1000)
        /\ ret[p] = Returned(PyTrue)

\* C3: encode on an unlocked hasher with a salt wrapped in $...$ returns a
\* string whose share field is nextavailableshare as it was before the call,
\* and adds one to nextavailableshare; with an unwrapped salt the share field
\* is 0 and nextavailableshare is unchanged.
C3_ShareAllocation ==
    \A p \in Procs :
        (After(p, "encode") /\ call[p].entry.is_unlocked /\ call[p].entry.has_key)
        => LET before == call[p].entry.nextavailableshare
               f == Split(ret[p].value, DOLLAR, 4)
           IN  /\ ret[p].kind = "return"
               /\ Len(f) = 5
               /\ IF Wrapped(call[p].salt)
                  THEN /\ f[2] = FormatInt(before)
                       /\ data[p].nextavailableshare = before + 1
                  ELSE /\ f[2] = FormatInt(0)
                       /\ data[p].nextavailableshare = before

\* the second wrapped salt that an unlocked hasher encodes
C3_Witness ==
    \E p \in Procs :
        /\ After(p, "encode")
        /\ call[p].entry.is_unlocked
        /\ Wrapped(call[p].salt)
        /\ call[p].entry.nextavailableshare = 2
        /\ data[p].nextavailableshare = 3

\* C4: encode on a hasher that is not unlocked, or holds no thresholdless key,
\* returns a string whose share field is '-' and the latent share number (0
\* for an unwrapped salt, the allocated number for a wrapped one) and whose
\* hash field is the plain salted hash.
C4_LockedEncode ==
    \A p \in Procs :
        (After(p, "encode") /\ (~call[p].entry.is_unlocked \/ ~call[p].entry.has_key))
        => LET f == Split(ret[p].value, DOLLAR, 4)
               n == IF Wrapped(call[p].salt)
                    THEN call[p].entry.nextavailableshare ELSE 0
               its == IF call[p].iterations = <<>>
                      THEN iterations ELSE call[p].iterations[1]
           IN  /\ ret[p].kind = "return"
               /\ Len(f) = 5
               /\ f[2] = <<MINUS>> \o FormatInt(n)
               /\ f[3] = FormatInt(its)
               /\ f[4] = Strip(call[p].salt, DOLLAR)
               /\ f[5] = b64enc(digest(call[p].password, f[4], its))

\* a locked hasher has encoded with a wrapped salt
C4_Witness ==
    \E p \in Procs :
        /\ After(p, "encode")
        /\ ~call[p].entry.is_unlocked
        /\ Wrapped(call[p].salt)
        /\ ret[p].kind = "return"
        /\ Split(ret[p].value, DOLLAR, 4)[2] = <<MINUS>> \o FormatInt(1)

\* the partial bytes kept at the end of a stored hash: the bytes of its last
\* base64 group(s)
StoredPartialBytes(passhash) ==
    b64decode(Tail_n(passhash, 4 * ((partialbytes + 2) \div 3)))

\* process p's verify took the locked path of an unlocked-form entry, with
\* partial bytes configured
LockedPartialVerify(p) ==
    /\ After(p, "verify")
    /\ call[p].path = "locked"
    /\ partialbytes > 0

\* C5 as stated: with partialbytes > 0, a locked hasher's verify of an
\* unlocked-form entry returns True when the last partialbytes bytes of the
\* recomputed salted hash are those kept in the stored hash, and False when
\* they are not, whatever candidate shares are cached.
C5_PartialBytesDecide ==
    \A p \in Procs :
        LockedPartialVerify(p)
        => LET e == call[p].fields
               h == digest(call[p].password, e.salt, ParseInt(e.iterations))
           IN  ret[p] = Returned(PyBool(Tail_n(h, partialbytes)
                                            = StoredPartialBytes(e.original_hash)))

\* C5, amended: with partialbytes > 0, a locked hasher's verify of an
\* unlocked-form entry either raises (the share-conflict error, when a
\* different candidate share is cached for the entry's share number; an error
\* out of _recombine, when this verify cached a share), or returns whether the
\* last partialbytes characters of the base64 text of the recomputed salted
\* hash are the last partialbytes characters of the stored hash.
C5_PartialTextDecides ==
    \A p \in Procs :
        LockedPartialVerify(p)
        => LET e == call[p].fields
               its == ParseInt(e.iterations)
               text == b64enc(digest(call[p].password, e.salt, its))
               n == call[p].sharenumber
           IN  \/ ret[p] = Returned(PyBool(Tail_n(text, partialbytes)
                                              = Tail_n(e.original_hash, partialbytes)))
               \/ /\ ret[p] = Raised(ShareConflict)
                  /\ n \in DOMAIN cache.shares
                  /\ cache.shares[n] # get_share_from_hash(call[p].password, e.salt,
                                                           e.original_hash, its)
               \/ /\ ret[p].kind = "raise"
                  /\ ret[p].value \in RecombineErrors
                  /\ call[p].added

\* a locked hasher has answered True to a password that is not the user's
C5_Witness ==
    \E p \in Procs :
        /\ LockedPartialVerify(p)
        /\ ret[p] = Returned(PyTrue)
        /\ \E u \in users : u.password = call[p].encoded /\ u.pw # call[p].password

\* C6: on a locked hasher, a verify that recovers a candidate share differing
\* from the one cached for the entry's share number raises the share-conflict
\* error, and no step of any verify changes a share that is cached.
C6_CachedShareKept ==
    [][\/ Restart
       \/ /\ \A p \in Procs :
                (/\ pc[p] = "share_get"
                 /\ pc'[p] # "share_get"
                 /\ call[p].sharenumber \in DOMAIN cache.shares
                 /\ cache.shares[call[p].sharenumber] # call[p].share)
                => (pc'[p] = "returned" /\ ret'[p] = Raised(ShareConflict))
          /\ \A n \in DOMAIN cache.shares :
                n \in DOMAIN cache'.shares /\ cache'.shares[n] = cache.shares[n]]_vars

\* a verify has raised the share-conflict error and the share it found cached
\* is still there
C6_Witness ==
    \E p \in Procs :
        /\ After(p, "verify")
        /\ ret[p] = Raised(ShareConflict)
        /\ call[p].sharenumber \in DOMAIN cache.shares
        /\ cache.shares[call[p].sharenumber]
               # get_share_from_hash(call[p].password, call[p].fields.salt,
                                     call[p].fields.original_hash,
                                     ParseInt(call[p].fields.iterations))

\* C7: no step of _recombine, called on a hasher that is unlocked, changes the
\* hasher's secret, thresholdless key or nextavailableshare.
C7_RecombineUnlockedKeeps ==
    [][\/ Restart
       \/ \A p \in Procs :
             (call[p].op = "recombine" /\ call[p].entry.is_unlocked)
             => /\ data'[p].secret = data[p].secret
                /\ data'[p].thresholdlesskey = data[p].thresholdlesskey
                /\ data'[p].nextavailableshare = data[p].nextavailableshare]_vars

\* _recombine, called on an unlocked hasher, has recovered the secret from the
\* cached shares and returned
C7_Witness ==
    \E p \in Procs :
        /\ After(p, "recombine")
        /\ call[p].entry.is_unlocked
        /\ ret[p] = Returned(NONE)
        /\ data[p].secret = MasterSecret

\* C8: verify raises LockedException exactly when the hasher holds no secret
\* or no thresholdless key, the entry is not a '-n' entry and partialbytes is
\* 0; otherwise, unless it raises the share-conflict error or an error out of
\* _recombine, it returns True or False.
C8_LockedException ==
    \A p \in Procs :
        After(p, "verify")
        => LET lockedcase ==
                   /\ ~call[p].entry.has_secret \/ ~call[p].entry.has_key
                   /\ ~StartsWith(Split(call[p].encoded, DOLLAR, 4)[2], MINUS)
                   /\ partialbytes = 0
               failed ==
                   /\ ret[p].kind = "raise"
                   /\ ret[p].value \in {ShareConflict} \cup RecombineErrors
           IN  /\ (ret[p] = Raised("LockedException")) => lockedcase
               /\ ~failed
                  => IF lockedcase
                     THEN ret[p] = Raised("LockedException")
                     ELSE ret[p] \in {Returned(PyTrue), Returned(PyFalse)}

\* the verify that brought the cached shares to the threshold has unlocked the
\* hasher and raised LockedException
C8_Witness ==
    \E p \in Procs :
        /\ After(p, "verify")
        /\ ret[p] = Raised("LockedException")
        /\ ~call[p].entry.is_unlocked
        /\ data[p].is_unlocked

\* C9: no share number is handed out twice: each allocation returns a number
\* above every number allocated before it.
C9_SharesNeverReused ==
    \A i, j \in 1..Len(allocated) : (i < j) => (allocated[i] < allocated[j])

\* C10: when threshold or more candidate shares are cached and every verify
\* has returned, _recombine has been entered.
C10_RecombineAtThreshold ==
    (/\ Cardinality(DOMAIN cache.shares) >= threshold
     /\ \A p \in Procs : pc[p] \in {"idle", "returned"})
    => recombined

\* the hasher states a call can start from: each process's self.data and class
\* defaults, and the state persisted in the cache
EngineStates ==
    {data[p] : p \in Procs} \cup {defaults[p] : p \in Procs}
        \cup (IF cache.hasher # NoneObj THEN {cache.hasher} ELSE {})

\* process p's verify, entered on a locked hasher, has left it unlocked
UnlockedByVerify(p) ==
    /\ After(p, "verify")
    /\ ~call[p].entry.is_unlocked
    /\ data[p].is_unlocked

\* C11: every hasher state, in a process or persisted, that is unlocked holds
\* the secret, the thresholdless key and the Shamir object.
C11_UnlockedHoldsAll ==
    \A d \in EngineStates :
        d.is_unlocked
        => (d.secret # NONE /\ d.thresholdlesskey # NONE /\ d.shamirsecretobj # NoneObj)

\* a verify has recombined the secret and the unlocked state is persisted
C11_Witness ==
    \E p \in Procs :
        /\ UnlockedByVerify(p)
        /\ cache.hasher # NoneObj
        /\ cache.hasher.is_unlocked
        /\ cache.hasher.secret = MasterSecret

\* C12: every hasher state that is not unlocked, the state a raising
\* _recombine leaves included, holds no Shamir object and no thresholdless key.
C12_LockedHoldsNone ==
    \A d \in EngineStates :
        ~d.is_unlocked => (d.shamirsecretobj = NoneObj /\ d.thresholdlesskey = NONE)

\* what _recombine raises for a recovered secret whose fingerprint is wrong
FingerprintFailed == Raised("Exception: Couldn't recombine store!")

\* C13: the step of _recombine, on a locked hasher, that finds the fingerprint
\* of the recovered secret wrong raises, leaves the hasher locked and without
\* a thresholdless key, and leaves the persisted state as it was; the state
\* the next call loads is locked and without a key too, so that encode returns
\* a '-n' entry and verify takes the locked path.
C13_FingerprintFailureKeepsLocked ==
    [][\A p \in Procs :
          (/\ pc[p] = "recombine"
           /\ ~data[p].is_unlocked
           /\ ret'[p] = FingerprintFailed)
          => /\ pc'[p] = "returned"
             /\ ~data'[p].is_unlocked
             /\ data'[p].thresholdlesskey = NONE
             /\ cache'.hasher = cache.hasher
             /\ LET d == IF cache'.hasher # NoneObj THEN cache'.hasher ELSE defaults'[p]
                IN  /\ ~d.is_unlocked
                    /\ d.thresholdlesskey = NONE
                    /\ StartsWith(Split(encode_string(d, PW1, <<97>>, <<>>, 0),
                                        DOLLAR, 4)[2], MINUS)]_vars

\* a verify on a locked hasher has raised the fingerprint error
C13_Witness ==
    \E p \in Procs :
        /\ After(p, "verify")
        /\ ret[p] = FingerprintFailed
        /\ ~call[p].entry.is_unlocked
        /\ ~data[p].is_unlocked
        /\ data[p].secret # NONE
\* the share of number n of the store's secret
StoreShare(n) == compute_share(ShamirSplit(threshold, MasterSecret), n)[2]

\* C15: for every threshold entry that an unlocked encode produced, whatever
\* iteration count it was passed, the candidate share that
\* _get_share_from_hash recovers from the entry with the correct password is
\* the share of the entry's number.
C15_CandidateIsShare ==
    \A u \in users :
        IsThresholdAccount(u)
        => CandidateOf(u) = StoreShare(ParseInt(EntryOf(u).sharenumber))

\* _recombine, entered by process p's verify on a locked hasher, has run to
\* its end: the unlocked state is persisted
RecombineCompleted(p) ==
    /\ UnlockedByVerify(p)
    /\ cache.hasher # NoneObj
    /\ cache.hasher.is_unlocked
    /\ cache.hasher.last_unlocked > call[p].entry.last_unlocked

\* C16: once _recombine has completed and the hasher is unlocked, the cache
\* holds no candidate share and no set of seen share numbers.
C16_ClearedOnUnlock ==
    \A p \in Procs :
        RecombineCompleted(p) => (cache.shares = <<>> /\ cache.sharenumbers = {})
\* C20: no step of any process, under any interleaving of verify calls,
\* changes or removes an entry that 'partial_hashes' holds.
C20_PartialHashesKept ==
    [][\/ Restart
       \/ \A e \in cache.partial_hashes : e \in cache'.partial_hashes]_vars
\* C14: once the persisted state is unlocked, no step of any process makes
\* the persisted state one that is not unlocked.
C14_PersistedStaysUnlocked ==
    [][\/ Restart
       \/ (cache.hasher # NoneObj /\ cache.hasher.is_unlocked)
          => (cache'.hasher # NoneObj /\ cache'.hasher.is_unlocked)]_vars

\* what the sweep of the locked hashes raises
SweepErrors == {"KeyError", "NameError"}

\* C17: when a verify has recombined the secret, no failure of the sweep is
\* raised out of it and the unlocked state is persisted, whatever locked-mode
\* users the sweep met.
C17_SweepBestEffort ==
    \A p \in Procs :
        UnlockedByVerify(p)
        => /\ ~(ret[p].kind = "raise" /\ ret[p].value \in SweepErrors)
           /\ cache.hasher # NoneObj
           /\ cache.hasher.is_unlocked
\* C18: encode takes a share number, and adds one to nextavailableshare, when
\* and only when the salt begins and ends with '$'; for every other salt the
\* share number is 0 and nextavailableshare is unchanged.  The salt field it
\* writes holds no '$', and the string it returns splits into the five fields
\* that were written.
C18_AllocatesIffWrapped ==
    \A p \in Procs :
        After(p, "encode")
        => LET before == call[p].entry.nextavailableshare
               salt == Strip(call[p].salt, DOLLAR)
               f == Split(ret[p].value, DOLLAR, 4)
           IN  /\ ret[p].kind = "return"
               /\ IF Wrapped(call[p].salt)
                  THEN /\ call[p].sharenumber = before
                       /\ data[p].nextavailableshare = before + 1
                  ELSE /\ call[p].sharenumber = 0
                       /\ data[p].nextavailableshare = before
               /\ ~Contains(salt, DOLLAR)
               /\ Len(f) = 5
               /\ f[1] = algorithm
               /\ f[2] \in {FormatInt(call[p].sharenumber),
                            <<MINUS>> \o FormatInt(call[p].sharenumber)}
               /\ f[4] = salt
\* C19: every share number in an unlocked-form threshold entry is one of
\* 1..LastShare, and an encode that takes a share number above LastShare
\* raises and returns no entry.
C19_ShareNumbersInRange ==
    /\ \A u \in users :
            IsThresholdAccount(u) => ShareInRange(ParseInt(EntryOf(u).sharenumber))
    /\ \A p \in Procs :
            (After(p, "encode") /\ call[p].sharenumber > LastShare)
            => ret[p].kind = "raise"

====
